---- MODULE Spec2Model ----
(***************************************************************************)
(* Bare-metal Platform Abstraction Layer (slpal_baremetal.h) of the        *)
(* mbed TLS CRYPTO plugins: completion objects and mutexes shared by one   *)
(* foreground context and one interrupt service routine, the critical     *)
(* regions, the handler marks and the priority query.                      *)
(*                                                                         *)
(* Two execution contexts exist: "fg", the single foreground thread, and   *)
(* "isr", an interrupt handler.  The handler may start between any two     *)
(* memory accesses of the foreground and runs to its return before the     *)
(* foreground executes again.  Every access to a volatile object, and      *)
(* every load and store of gTicks, is a step of its own.                   *)
(*                                                                         *)
(* The program variables are changed by the actions named after the        *)
(* functions and source lines.  The history variables only record what     *)
(* happened; each specification records the histories its properties read  *)
(* and leaves the others at their initial value.                           *)
(***************************************************************************)
EXTENDS Integers, FiniteSets, Sequences, TLC

(* ------------------------------ bounds -------------------------------- *)
\* Largest tick budget passed when both contexts run.
MaxTicks == 2
\* Largest tick budget passed when the foreground runs alone.
MaxTicksAlone == 5
\* gTicks is an unsigned int; the model keeps it modulo TickWrap.
TickWrap == 7
\* SLPAL_Complete calls between two init/free calls, where they are counted.
MaxCount == 2
\* The most negative ticks argument passed is 0 - MaxNeg.
MaxNeg == 3
\* Largest size argument and largest magnitude of a socket call's result.
MaxSize == 1
MaxSockRet == 1
\* Largest register address handed to DMDIF_init.
MaxAddr == 2
\* Deepest nesting of critical regions.
MaxDepth == 2
\* Numerically largest (least urgent) interrupt priority.
MaxPrio == 4

(* --------------------------- program constants ------------------------ *)
SLPAL_WAIT_FOREVER == 0 - 1
SLPAL_NON_BLOCKING == 0
\* Declared in slpal_common.h; the functions below only store and return it.
\* Any value different from 0 fits.
SLPAL_ERROR_TIMEOUT == 0 - 7
\* Threshold of the critical regions and priority of the CRYPTO interrupt.
CORE_ATOMIC_BASE_PRIORITY_LEVEL == 3
SLPAL_CRYPTO_IRQ_PRIORITY == 0

Ctx == {"fg", "isr"}

VARIABLES
  comp,       \* the SLPAL_Completion_t object (volatile bool)
  mutex,      \* the SLPAL_Mutex_t object (volatile unsigned int)
  gTicks,     \* global tick counter of the SLPAL_TEST build
  slpalTest,  \* the build defines SLPAL_TEST
  pc,         \* per context: the source line about to execute, or "idle"
  ticks,      \* per context: the parameter `ticks` of the running call
  ret,        \* per context: the local `ret` of the running call
  gTmp,       \* per context: value of gTicks loaded by a pending gTicks++
  result,     \* per context: the value its last finished call returned
  basepri,    \* the interrupt mask: 0 masks nothing, b > 0 masks priorities >= b
  tok,        \* per context: the irqState values of its open critical regions
  isrPrio,    \* the priority the handler's interrupt is configured with
  tpc,        \* trcTCPIP.c: the line about to execute, or "idle"
  tsize,      \* trcTCPIP.c: the parameter `size` of the running call
  tlog,       \* the socket calls made by the running or last trcTcp call
  tret,       \* the value the last trcTcp call returned
  command_register, \* dmdif_ssd2119_spi.c: static uint32_t command_register
  data_register,    \* dmdif_ssd2119_spi.c: static uint32_t data_register
  dpc,        \* dmdif_ssd2119_spi.c: the line about to execute, or "idle"
  wreg,       \* the parameter `reg` of the running or last DMDIF_writeReg
  wdata,      \* the parameter `data` of the running or last DMDIF_writeReg
  sdata,      \* the local `data` of setNextReg
  dlog,       \* the bus writes made by the running or last DMDIF call
  dret,       \* the value the last DMDIF call returned
  arg,        \* history: the ticks argument the running call was given
  iters,      \* history: loop bodies the running call has completed
  wrote,      \* history: the running call has written its object
  saw,        \* history: the running call read its object while a signal/give was pending
  start,      \* history: the object was set/free when the running call began
  g0,         \* history: gTicks when the running call of the foreground began
  prev,       \* history: the last call the foreground completed
  nSig,       \* history: SLPAL_Complete calls since the last init/free
  nOk,        \* history: waits that returned 0 since the last init/free
  pendC,      \* history: a SLPAL_Complete not yet consumed by a wait
  pendM,      \* history: a give not yet consumed by a take
  holds,      \* history: per context, has taken the mutex and not given it
  clean,      \* history: every give so far came from a holder, no init/free of the mutex
  sig,        \* history: where the foreground call was when the ISR first signalled/gave
  tfn,        \* history: the trcTcp function called last
  dfn,        \* history: the DMDIF function called last
  dinit,      \* history: the arguments of the last DMDIF_init
  ev,         \* history: the last step taken, and by which context
  freed,      \* history: SLPAL_FreeMutex ran and no give or init since
  since,      \* history: per context, freed held from the call of the running take on
  drop,       \* history: what the last init/free of the completion met, until the next signal
  stray,      \* history: a context gave the mutex another one holds, none itself
  late,       \* history: the foreground's last wait timed out though signalled meanwhile
  burst,      \* history: signals since the last wait, and those the last wait consumed
  s0          \* history: the interrupt mask before the first critical region

\* The state of trcTCPIP.c and of dmdif_ssd2119_spi.c.
tcp == <<tpc, tsize, tlog, tret>>
dmd == <<command_register, data_register, dpc, wreg, wdata, sdata, dlog, dret>>
io == <<tcp, dmd>>
\* What no call on a completion or a mutex changes.
rest == <<slpalTest, basepri, tok, isrPrio, io>>
\* The state of the platform abstraction layer.
pal == <<comp, mutex, gTicks, pc, ticks, ret, gTmp, result,
         slpalTest, basepri, tok, isrPrio>>
prog == <<comp, mutex, gTicks, pc, ticks, ret, gTmp, result, rest>>
palHist == <<arg, iters, wrote, saw, start, g0, prev, nSig, nOk, pendC, pendM,
          holds, clean, sig, ev, freed, since, drop, stray,
          late, burst, s0>>
hist == <<palHist, tfn, dfn, dinit>>
vars == <<prog, hist>>

NoSig == [at |-> "none", it |-> 0]
NoEv == [c |-> "fg", op |-> "none"]

WaitPcs == {"L321", "L324", "L324st", "L327", "L332", "L336", "L336st",
            "L339", "L341", "L350"}
TakePcs == {"L424", "L427", "L427st", "L430", "L435", "L439", "L439st",
            "L442", "L444", "L453"}

\* Priority p is masked under interrupt mask b.
Masked(p, b) == b # 0 /\ p >= b

\* The foreground executes only while no handler is active; a handler starts
\* whenever none is active and its priority is not masked, and then runs on.
CanRun(c) ==
  IF c = "isr"
    THEN pc["isr"] # "idle" \/ ~Masked(isrPrio, basepri)
    ELSE pc["isr"] = "idle"

At(c, l) == pc[c] = l /\ CanRun(c)

Goto(c, l) == pc' = [pc EXCEPT ![c] = l]

InitObjects ==
  /\ comp = FALSE
  /\ mutex = 1
  /\ gTicks = 0
  /\ pc = [c \in Ctx |-> "idle"]
  /\ ticks = [c \in Ctx |-> 0]
  /\ ret = [c \in Ctx |-> 0]
  /\ gTmp = [c \in Ctx |-> 0]
  /\ result = [c \in Ctx |-> 0]
  /\ tok = [c \in Ctx |-> << >>]
  /\ tpc = "idle" /\ tsize = 0 /\ tlog = << >> /\ tret = 0
  /\ command_register = 0 /\ data_register = 0
  /\ dpc = "idle" /\ wreg = 0 /\ wdata = 0 /\ sdata = 0
  /\ dlog = << >> /\ dret = "none"

\* Nothing is masked and the handler has the priority of the CRYPTO interrupt.
InitProg ==
  /\ InitObjects
  /\ basepri = 0
  /\ isrPrio = SLPAL_CRYPTO_IRQ_PRIORITY

InitHist ==
  /\ arg = [c \in Ctx |-> 0]
  /\ iters = [c \in Ctx |-> 0]
  /\ wrote = [c \in Ctx |-> FALSE]
  /\ saw = [c \in Ctx |-> FALSE]
  /\ start = [c \in Ctx |-> FALSE]
  /\ g0 = 0
  /\ prev = [op |-> "InitMutex", arg |-> 0, ret |-> 0]
  /\ nSig = 0
  /\ nOk = 0
  /\ pendC = FALSE
  /\ pendM = TRUE
  /\ holds = [c \in Ctx |-> FALSE]
  /\ clean = TRUE
  /\ sig = NoSig
  /\ ev = NoEv
  /\ freed = FALSE
  /\ since = [c \in Ctx |-> FALSE]
  /\ drop = "clear"
  /\ stray = FALSE
  /\ late = FALSE
  /\ burst = [n |-> 0, got |-> 0]
  /\ s0 = basepri
  /\ tfn = "none"
  /\ dfn = "none"
  /\ dinit = << >>

(* ------------------------- completion objects ------------------------- *)

\* Faulty variant: the initialiser stores true.
InitCompletionSets(c) ==
  /\ At(c, "idle")
  /\ comp' = TRUE
  /\ result' = [result EXCEPT ![c] = 0]
  /\ UNCHANGED <<mutex, gTicks, rest, pc, ticks, ret, gTmp>>

\* SLPAL_InitCompletion: *pComp = false; return 0.
SLPAL_InitCompletion(c) ==
  /\ At(c, "idle")
  /\ comp' = FALSE
  /\ result' = [result EXCEPT ![c] = 0]
  /\ UNCHANGED <<mutex, gTicks, rest, pc, ticks, ret, gTmp>>

\* Faulty variant: freeing leaves the flag as it is.
FreeCompletionKeeps(c) ==
  /\ At(c, "idle")
  /\ comp' = comp
  /\ result' = [result EXCEPT ![c] = 0]
  /\ UNCHANGED <<mutex, gTicks, rest, pc, ticks, ret, gTmp>>

\* SLPAL_FreeCompletion: *pComp = false; return 0.
SLPAL_FreeCompletion(c) ==
  /\ At(c, "idle")
  /\ comp' = FALSE
  /\ result' = [result EXCEPT ![c] = 0]
  /\ UNCHANGED <<mutex, gTicks, rest, pc, ticks, ret, gTmp>>

\* Faulty variant: signalling a completion that is already set fails.
CompleteReportsSet(c) ==
  /\ At(c, "idle")
  /\ comp' = TRUE
  /\ result' = [result EXCEPT ![c] = IF comp THEN SLPAL_ERROR_TIMEOUT ELSE 0]
  /\ UNCHANGED <<mutex, gTicks, rest, pc, ticks, ret, gTmp>>

\* SLPAL_Complete: *pComp = true; return 0.
SLPAL_Complete(c) ==
  /\ At(c, "idle")
  /\ comp' = TRUE
  /\ result' = [result EXCEPT ![c] = 0]
  /\ UNCHANGED <<mutex, gTicks, rest, pc, ticks, ret, gTmp>>

\* Entry of SLPAL_WaitForCompletion(pComp, t): line 319 selects the branch.
WaitCall(c, t) ==
  /\ At(c, "idle")
  /\ Goto(c, IF t = SLPAL_WAIT_FOREVER THEN "L321" ELSE "L332")
  /\ ticks' = [ticks EXCEPT ![c] = t]
  /\ UNCHANGED <<comp, mutex, gTicks, rest, result, ret, gTmp>>

\* Faulty variant: the loop test is inverted, while (*pComp == true).
W321Inverted(c) ==
  /\ At(c, "L321")
  /\ Goto(c, IF comp = TRUE
             THEN (IF slpalTest THEN "L324" ELSE "L321")
             ELSE "L327")
  /\ UNCHANGED <<comp, mutex, gTicks, rest, result, ticks, ret, gTmp>>

\* Line 321: while (*pComp == false); the body is gTicks++ or empty.
W321(c) ==
  /\ At(c, "L321")
  /\ Goto(c, IF comp = FALSE
             THEN (IF slpalTest THEN "L324" ELSE "L321")
             ELSE "L327")
  /\ UNCHANGED <<comp, mutex, gTicks, rest, result, ticks, ret, gTmp>>

\* Faulty variant: the flag is not cleared.
W327NoClear(c) ==
  /\ At(c, "L327")
  /\ ret' = [ret EXCEPT ![c] = 0]
  /\ Goto(c, "L350")
  /\ UNCHANGED <<comp, mutex, gTicks, rest, result, ticks, gTmp>>

\* Lines 327-328: *pComp = false; ret = 0.
W327(c) ==
  /\ At(c, "L327")
  /\ comp' = FALSE
  /\ ret' = [ret EXCEPT ![c] = 0]
  /\ Goto(c, "L350")
  /\ UNCHANGED <<mutex, gTicks, rest, result, ticks, gTmp>>

\* Faulty variant: the budget test is ticks >= 0, one iteration too many.
W332OffByOne(c) ==
  /\ At(c, "L332")
  /\ IF comp = FALSE /\ ticks[c] >= 0
     THEN /\ ticks' = [ticks EXCEPT ![c] = @ - 1]
          /\ Goto(c, IF slpalTest THEN "L336" ELSE "L332")
     ELSE /\ Goto(c, "L339")
          /\ UNCHANGED ticks
  /\ UNCHANGED <<comp, mutex, gTicks, rest, result, ret, gTmp>>

\* Line 332: while ((*pComp == false) && (ticks > 0)), then line 334: ticks--.
W332(c) ==
  /\ At(c, "L332")
  /\ IF comp = FALSE /\ ticks[c] > 0
     THEN /\ ticks' = [ticks EXCEPT ![c] = @ - 1]
          /\ Goto(c, IF slpalTest THEN "L336" ELSE "L332")
     ELSE /\ Goto(c, "L339")
          /\ UNCHANGED ticks
  /\ UNCHANGED <<comp, mutex, gTicks, rest, result, ret, gTmp>>

\* Faulty variant: the outcome is decided by the remaining budget, not by the flag.
W339ByBudget(c) ==
  /\ At(c, "L339")
  /\ IF ticks[c] > 0
     THEN Goto(c, "L341") /\ UNCHANGED ret
     ELSE Goto(c, "L350") /\ ret' = [ret EXCEPT ![c] = SLPAL_ERROR_TIMEOUT]
  /\ UNCHANGED <<comp, mutex, gTicks, rest, result, ticks, gTmp>>

\* Faulty variant: the final test is inverted, if (*pComp == false).
W339Negated(c) ==
  /\ At(c, "L339")
  /\ IF comp = FALSE
     THEN Goto(c, "L341") /\ UNCHANGED ret
     ELSE Goto(c, "L350") /\ ret' = [ret EXCEPT ![c] = SLPAL_ERROR_TIMEOUT]
  /\ UNCHANGED <<comp, mutex, gTicks, rest, result, ticks, gTmp>>

\* Line 339: if (*pComp == true), else line 346: ret = SLPAL_ERROR_TIMEOUT.
W339(c) ==
  /\ At(c, "L339")
  /\ IF comp = TRUE
     THEN Goto(c, "L341") /\ UNCHANGED ret
     ELSE Goto(c, "L350") /\ ret' = [ret EXCEPT ![c] = SLPAL_ERROR_TIMEOUT]
  /\ UNCHANGED <<comp, mutex, gTicks, rest, result, ticks, gTmp>>

\* Faulty variant: the flag is a counter; consuming it leaves it set.
W341NoClear(c) ==
  /\ At(c, "L341")
  /\ comp' = comp
  /\ ret' = [ret EXCEPT ![c] = 0]
  /\ Goto(c, "L350")
  /\ UNCHANGED <<mutex, gTicks, rest, result, ticks, gTmp>>

\* Lines 341-342: *pComp = false; ret = 0.
W341(c) ==
  /\ At(c, "L341")
  /\ comp' = FALSE
  /\ ret' = [ret EXCEPT ![c] = 0]
  /\ Goto(c, "L350")
  /\ UNCHANGED <<mutex, gTicks, rest, result, ticks, gTmp>>

\* Faulty variant: the return clears the flag.
W350Clears(c) ==
  /\ At(c, "L350")
  /\ Goto(c, "idle")
  /\ ticks' = [ticks EXCEPT ![c] = 0]
  /\ ret' = [ret EXCEPT ![c] = 0]
  /\ result' = [result EXCEPT ![c] = ret[c]]
  /\ comp' = FALSE
  /\ UNCHANGED <<mutex, gTicks, rest, gTmp>>

\* Line 350: return ret; the locals die.
W350(c) ==
  /\ At(c, "L350")
  /\ Goto(c, "idle")
  /\ ticks' = [ticks EXCEPT ![c] = 0]
  /\ ret' = [ret EXCEPT ![c] = 0]
  /\ result' = [result EXCEPT ![c] = ret[c]]
  /\ UNCHANGED <<comp, mutex, gTicks, rest, gTmp>>

(* ------------------- gTicks++ of the SLPAL_TEST build ----------------- *)

\* gTicks++ is a load and a store of a plain global; a handler that runs
\* between the two has its own increments overwritten.
TickLoad(c, from, to) ==
  /\ At(c, from)
  /\ gTmp' = [gTmp EXCEPT ![c] = gTicks]
  /\ Goto(c, to)
  /\ UNCHANGED <<comp, mutex, gTicks, rest, result, ticks, ret>>

TickStore(c, from, to) ==
  /\ At(c, from)
  /\ gTicks' = (gTmp[c] + 1) % TickWrap
  /\ gTmp' = [gTmp EXCEPT ![c] = 0]
  /\ Goto(c, to)
  /\ UNCHANGED <<comp, mutex, rest, result, ticks, ret>>

\* Lines 324 and 336: gTicks++ in the two loops of SLPAL_WaitForCompletion.
W324(c) == TickLoad(c, "L324", "L324st")
W324st(c) == TickStore(c, "L324st", "L321")
W336(c) == TickLoad(c, "L336", "L336st")
W336st(c) == TickStore(c, "L336st", "L332")

(* ------------------------------- mutexes ------------------------------ *)

\* SLPAL_InitMutex: *pMutex = 1; return 0.
SLPAL_InitMutex(c) ==
  /\ At(c, "idle")
  /\ mutex' = 1
  /\ result' = [result EXCEPT ![c] = 0]
  /\ UNCHANGED <<comp, gTicks, rest, pc, ticks, ret, gTmp>>

\* Faulty variant: freeing releases the mutex.
FreeMutexReleases(c) ==
  /\ At(c, "idle")
  /\ mutex' = 1
  /\ result' = [result EXCEPT ![c] = 0]
  /\ UNCHANGED <<comp, gTicks, rest, pc, ticks, ret, gTmp>>

\* SLPAL_FreeMutex: *pMutex = 0; return 0.
SLPAL_FreeMutex(c) ==
  /\ At(c, "idle")
  /\ mutex' = 0
  /\ result' = [result EXCEPT ![c] = 0]
  /\ UNCHANGED <<comp, gTicks, rest, pc, ticks, ret, gTmp>>

\* Faulty variant: the give inverts the mutex.
GiveMutexToggles(c) ==
  /\ At(c, "idle")
  /\ mutex' = 1 - mutex
  /\ result' = [result EXCEPT ![c] = 0]
  /\ UNCHANGED <<comp, gTicks, rest, pc, ticks, ret, gTmp>>

\* SLPAL_GiveMutex: *pMutex = 1; return 0.
SLPAL_GiveMutex(c) ==
  /\ At(c, "idle")
  /\ mutex' = 1
  /\ result' = [result EXCEPT ![c] = 0]
  /\ UNCHANGED <<comp, gTicks, rest, pc, ticks, ret, gTmp>>

\* Faulty variant: every negative ticks selects the wait-forever branch.
TakeCallNegativeForever(c, t) ==
  /\ At(c, "idle")
  /\ Goto(c, IF t < 0 THEN "L424" ELSE "L435")
  /\ ticks' = [ticks EXCEPT ![c] = t]
  /\ UNCHANGED <<comp, mutex, gTicks, rest, result, ret, gTmp>>

\* Entry of SLPAL_TakeMutex(pMutex, t): line 422 selects the branch.
TakeCall(c, t) ==
  /\ At(c, "idle")
  /\ Goto(c, IF t = SLPAL_WAIT_FOREVER THEN "L424" ELSE "L435")
  /\ ticks' = [ticks EXCEPT ![c] = t]
  /\ UNCHANGED <<comp, mutex, gTicks, rest, result, ret, gTmp>>

\* Line 424: while (*pMutex == 0); the body is gTicks++ or empty.
T424(c) ==
  /\ At(c, "L424")
  /\ Goto(c, IF mutex = 0
             THEN (IF slpalTest THEN "L427" ELSE "L424")
             ELSE "L430")
  /\ UNCHANGED <<comp, mutex, gTicks, rest, result, ticks, ret, gTmp>>

\* Lines 430-431: *pMutex = 0; ret = 0.
T430(c) ==
  /\ At(c, "L430")
  /\ mutex' = 0
  /\ ret' = [ret EXCEPT ![c] = 0]
  /\ Goto(c, "L453")
  /\ UNCHANGED <<comp, gTicks, rest, result, ticks, gTmp>>

\* Faulty variant: the budget test is ticks > 1, one iteration fewer than
\* the wait.
T435OneFewer(c) ==
  /\ At(c, "L435")
  /\ IF mutex = 0 /\ ticks[c] > 1
     THEN /\ ticks' = [ticks EXCEPT ![c] = @ - 1]
          /\ Goto(c, IF slpalTest THEN "L439" ELSE "L435")
     ELSE /\ Goto(c, "L442")
          /\ UNCHANGED ticks
  /\ UNCHANGED <<comp, mutex, gTicks, rest, result, ret, gTmp>>

\* Faulty variant: the loop body does not decrement the budget.
T435NoDecrement(c) ==
  /\ At(c, "L435")
  /\ IF mutex = 0 /\ ticks[c] > 0
     THEN /\ ticks' = ticks
          /\ Goto(c, IF slpalTest THEN "L439" ELSE "L435")
     ELSE /\ Goto(c, "L442")
          /\ UNCHANGED ticks
  /\ UNCHANGED <<comp, mutex, gTicks, rest, result, ret, gTmp>>

\* Line 435: while ((*pMutex == 0) && (ticks > 0)), then line 437: ticks--.
T435(c) ==
  /\ At(c, "L435")
  /\ IF mutex = 0 /\ ticks[c] > 0
     THEN /\ ticks' = [ticks EXCEPT ![c] = @ - 1]
          /\ Goto(c, IF slpalTest THEN "L439" ELSE "L435")
     ELSE /\ Goto(c, "L442")
          /\ UNCHANGED ticks
  /\ UNCHANGED <<comp, mutex, gTicks, rest, result, ret, gTmp>>

\* Faulty variant: the timeout branch gives the mutex back, *pMutex = 1.
T442GiveBack(c) ==
  /\ At(c, "L442")
  /\ IF mutex > 0
     THEN Goto(c, "L444") /\ UNCHANGED <<ret, mutex>>
     ELSE /\ Goto(c, "L453")
          /\ ret' = [ret EXCEPT ![c] = SLPAL_ERROR_TIMEOUT]
          /\ mutex' = 1
  /\ UNCHANGED <<comp, gTicks, rest, result, ticks, gTmp>>

\* Line 442: if (*pMutex > 0), else line 449: ret = SLPAL_ERROR_TIMEOUT.
T442(c) ==
  /\ At(c, "L442")
  /\ IF mutex > 0
     THEN Goto(c, "L444") /\ UNCHANGED ret
     ELSE Goto(c, "L453") /\ ret' = [ret EXCEPT ![c] = SLPAL_ERROR_TIMEOUT]
  /\ UNCHANGED <<comp, mutex, gTicks, rest, result, ticks, gTmp>>

\* Faulty variant: the mutex is not marked held.
T444NoStore(c) ==
  /\ At(c, "L444")
  /\ ret' = [ret EXCEPT ![c] = 0]
  /\ Goto(c, "L453")
  /\ UNCHANGED <<comp, mutex, gTicks, rest, result, ticks, gTmp>>

\* Lines 444-445: *pMutex = 0; ret = 0.
T444(c) ==
  /\ At(c, "L444")
  /\ mutex' = 0
  /\ ret' = [ret EXCEPT ![c] = 0]
  /\ Goto(c, "L453")
  /\ UNCHANGED <<comp, gTicks, rest, result, ticks, gTmp>>

\* Line 453: return ret; the locals die.
T453(c) ==
  /\ At(c, "L453")
  /\ Goto(c, "idle")
  /\ ticks' = [ticks EXCEPT ![c] = 0]
  /\ ret' = [ret EXCEPT ![c] = 0]
  /\ result' = [result EXCEPT ![c] = ret[c]]
  /\ UNCHANGED <<comp, mutex, gTicks, rest, gTmp>>

\* Lines 427 and 439: gTicks++ in the two loops of SLPAL_TakeMutex.
T427(c) == TickLoad(c, "L427", "L427st")
T427st(c) == TickStore(c, "L427st", "L424")
T439(c) == TickLoad(c, "L439", "L439st")
T439st(c) == TickStore(c, "L439st", "L435")

(* --------------------------- critical regions ------------------------- *)
\* CORE_EnterAtomic and CORE_ExitAtomic are defined in em_core.c.  Entering
\* raises the mask to exclude the priorities at or below the threshold (the
\* numerically greater or equal ones), never lowering a stricter mask, and
\* returns the mask it found; leaving installs the mask it is handed.
CORE_EnterAtomicMask(b) ==
  IF Masked(CORE_ATOMIC_BASE_PRIORITY_LEVEL, b)
    THEN b
    ELSE CORE_ATOMIC_BASE_PRIORITY_LEVEL

CORE_EnterAtomicRet(b) == b

CORE_ExitAtomicMask(irqState) == irqState

\* Faulty variant: the value of CORE_EnterAtomic is dropped, 0 is returned.
CriticalEnterDropsState(c) ==
  /\ At(c, "idle")
  /\ Len(tok[c]) < MaxDepth
  /\ basepri' = CORE_EnterAtomicMask(basepri)
  /\ tok' = [tok EXCEPT ![c] = Append(@, 0)]
  /\ UNCHANGED <<comp, mutex, gTicks, slpalTest, isrPrio, pc, ticks, ret,
                 gTmp, result, io>>

\* SLPAL_CriticalEnter: return (SLPAL_irqState_t) CORE_EnterAtomic().  The
\* caller keeps the value until the matching exit.
SLPAL_CriticalEnter(c) ==
  /\ At(c, "idle")
  /\ Len(tok[c]) < MaxDepth
  /\ basepri' = CORE_EnterAtomicMask(basepri)
  /\ tok' = [tok EXCEPT ![c] = Append(@, CORE_EnterAtomicRet(basepri))]
  /\ UNCHANGED <<comp, mutex, gTicks, slpalTest, isrPrio, pc, ticks, ret,
                 gTmp, result, io>>

\* Faulty variant: the exit is handed the value of the outermost region.
CriticalExitOutermost(c) ==
  /\ At(c, "idle")
  /\ tok[c] # << >>
  /\ basepri' = CORE_ExitAtomicMask(tok[c][1])
  /\ tok' = [tok EXCEPT ![c] = SubSeq(@, 1, Len(@) - 1)]
  /\ UNCHANGED <<comp, mutex, gTicks, slpalTest, isrPrio, pc, ticks, ret,
                 gTmp, result, io>>

\* SLPAL_CriticalExit: CORE_ExitAtomic((CORE_irqState_t) irqState), called
\* with the value the matching SLPAL_CriticalEnter returned.
SLPAL_CriticalExit(c) ==
  /\ At(c, "idle")
  /\ tok[c] # << >>
  /\ basepri' = CORE_ExitAtomicMask(tok[c][Len(tok[c])])
  /\ tok' = [tok EXCEPT ![c] = SubSeq(@, 1, Len(@) - 1)]
  /\ UNCHANGED <<comp, mutex, gTicks, slpalTest, isrPrio, pc, ticks, ret,
                 gTmp, result, io>>

(* ----------------------- handler marks and queries -------------------- *)
\* Faulty variant: the mark of the handler's entry clears the completion.
IsrEnterClears(c) ==
  /\ At(c, "idle")
  /\ comp' = FALSE
  /\ UNCHANGED <<mutex, gTicks, rest, pc, ticks, ret, gTmp, result>>

\* SLPAL_IsrEnter: empty body, no value.
SLPAL_IsrEnter(c) ==
  /\ At(c, "idle")
  /\ UNCHANGED <<comp, mutex, gTicks, rest, pc, ticks, ret, gTmp, result>>

\* SLPAL_IsrExit: empty body, no value.
SLPAL_IsrExit(c) ==
  /\ At(c, "idle")
  /\ UNCHANGED <<comp, mutex, gTicks, rest, pc, ticks, ret, gTmp, result>>

\* RUNNING_AT_INTERRUPT_LEVEL is defined outside this header: true while an
\* exception is active, that is, in the handler.
RUNNING_AT_INTERRUPT_LEVEL(c) == c = "isr"

\* Faulty variant: the two values of the conditional are exchanged.
ThreadPriorityGetSwapped(c) ==
  /\ At(c, "idle")
  /\ result' = [result EXCEPT ![c] =
                  IF RUNNING_AT_INTERRUPT_LEVEL(c) THEN 0 ELSE 1]
  /\ UNCHANGED <<comp, mutex, gTicks, rest, pc, ticks, ret, gTmp>>

\* SLPAL_ThreadPriorityGet:
\* return (unsigned long) RUNNING_AT_INTERRUPT_LEVEL ? 1 : 0.
SLPAL_ThreadPriorityGet(c) ==
  /\ At(c, "idle")
  /\ result' = [result EXCEPT ![c] =
                  IF RUNNING_AT_INTERRUPT_LEVEL(c) THEN 1 ELSE 0]
  /\ UNCHANGED <<comp, mutex, gTicks, rest, pc, ticks, ret, gTmp>>

(* ------------------------------ trcTCPIP.c ---------------------------- *)
\* The socket functions come from trcTCPIPConfig.h; each call yields some
\* int32_t, negative, zero or positive.
SockRets == (0 - MaxSockRet) .. MaxSockRet

SockCall(fn, sz, r) == [fn |-> fn, size |-> sz, r |-> r]

\* Entry of trcTcpRead(data, size, ptrBytesRead).
trcTcpRead(sz) ==
  /\ tpc = "idle"
  /\ tpc' = "L53"
  /\ tsize' = sz
  /\ tlog' = << >>
  /\ tfn' = "trcTcpRead"
  /\ UNCHANGED <<tret, dmd, pal, palHist, dfn, dinit>>

\* Faulty variant: a failed trcSocketInitializeListener ends the call with
\* its result.
TcpRead53Checks(r) ==
  /\ tpc = "L53"
  /\ tlog' = Append(tlog, SockCall("trcSocketInitializeListener", 0, r))
  /\ IF r < 0
       THEN tpc' = "idle" /\ tret' = r
       ELSE tpc' = "L55" /\ UNCHANGED tret
  /\ UNCHANGED <<tsize, dmd, pal, hist>>

\* Line 53: trcSocketInitializeListener(); its value is discarded.
TcpRead53(r) ==
  /\ tpc = "L53"
  /\ tlog' = Append(tlog, SockCall("trcSocketInitializeListener", 0, r))
  /\ tpc' = "L55"
  /\ UNCHANGED <<tsize, tret, dmd, pal, hist>>

\* Line 55: trcSocketAccept(); its value is discarded.
TcpRead55(r) ==
  /\ tpc = "L55"
  /\ tlog' = Append(tlog, SockCall("trcSocketAccept", 0, r))
  /\ tpc' = "L57"
  /\ UNCHANGED <<tsize, tret, dmd, pal, hist>>

\* Line 57: return trcSocketReceive(data, size, ptrBytesRead).
TcpRead57(r) ==
  /\ tpc = "L57"
  /\ tlog' = Append(tlog, SockCall("trcSocketReceive", tsize, r))
  /\ tret' = r
  /\ tpc' = "idle"
  /\ UNCHANGED <<tsize, dmd, pal, hist>>

\* Entry of trcTcpWrite(data, size, ptrBytesWritten).
trcTcpWrite(sz) ==
  /\ tpc = "idle"
  /\ tpc' = "L48"
  /\ tsize' = sz
  /\ tlog' = << >>
  /\ tfn' = "trcTcpWrite"
  /\ UNCHANGED <<tret, dmd, pal, palHist, dfn, dinit>>

\* Line 48: return trcSocketSend(data, size, ptrBytesWritten).
TcpWrite48(r) ==
  /\ tpc = "L48"
  /\ tlog' = Append(tlog, SockCall("trcSocketSend", tsize, r))
  /\ tret' = r
  /\ tpc' = "idle"
  /\ UNCHANGED <<tsize, dmd, pal, hist>>

(* ------------------------- dmdif_ssd2119_spi.c ------------------------ *)
\* Arguments tried: a uint8_t register index and a uint16_t data word, with
\* the ends of their ranges, single bits and a word whose bytes differ.
Regs == {0, 1, 34, 128, 255}
Datas == {0, 1, 255, 256, 4660, 32896, 65535}
Addrs == 1..MaxAddr

RECURSIVE BitAnd(_, _)
\* C's a & b on non-negative operands.
BitAnd(a, b) ==
  IF a = 0 \/ b = 0
    THEN 0
    ELSE (a % 2) * (b % 2) + 2 * BitAnd(a \div 2, b \div 2)

\* C's x << n and x >> n on non-negative int operands that do not overflow.
ShiftLeft(x, n) == x * 2^n
ShiftRight(x, n) == x \div 2^n

\* One bus write, as the display sees it.
BSP_RegisterWrite(addr, data) == [addr |-> addr, data |-> data]

\* DMDIF_init(cmdRegAddr, dataRegAddr): stores both addresses and selects
\* the SPI bus.
DMDIF_init(c, d) ==
  /\ dpc = "idle"
  /\ command_register' = c
  /\ data_register' = d
  /\ dlog' = <<BSP_RegisterWrite("BC_BUS_CFG", "BC_BUS_CFG_SPI")>>
  /\ dret' = "DMD_OK"
  /\ dfn' = "DMDIF_init"
  /\ dinit' = <<c, d>>
  /\ UNCHANGED <<dpc, wreg, wdata, sdata, tcp, pal, palHist, tfn>>

\* Entry of DMDIF_writeReg(reg, data), up to the call of setNextReg(reg)
\* in line 70.
DMDIF_writeReg(r, d) ==
  /\ dpc = "idle"
  /\ dpc' = "L196"
  /\ wreg' = r
  /\ wdata' = d
  /\ dlog' = << >>
  /\ dfn' = "DMDIF_writeReg"
  /\ UNCHANGED <<command_register, data_register, sdata, dret,
                 tcp, pal, palHist, tfn, dinit>>

\* Line 196: data = ((uint16_t) reg) << 1, stored in a uint16_t.
setNextReg196 ==
  /\ dpc = "L196"
  /\ sdata' = ShiftLeft(wreg % 2^16, 1) % 2^16
  /\ dpc' = "L199"
  /\ UNCHANGED <<command_register, data_register, wreg, wdata, dlog, dret,
                 tcp, pal, hist>>

\* Line 199: BSP_RegisterWrite(command_register, 0).
setNextReg199 ==
  /\ dpc = "L199"
  /\ dlog' = Append(dlog, BSP_RegisterWrite(command_register, 0))
  /\ dpc' = "L202"
  /\ UNCHANGED <<command_register, data_register, wreg, wdata, sdata, dret,
                 tcp, pal, hist>>

\* Line 202: BSP_RegisterWrite(command_register, data); setNextReg returns
\* DMD_OK, which line 70 discards.
setNextReg202 ==
  /\ dpc = "L202"
  /\ dlog' = Append(dlog, BSP_RegisterWrite(command_register, sdata))
  /\ dpc' = "L73"
  /\ UNCHANGED <<command_register, data_register, wreg, wdata, sdata, dret,
                 tcp, pal, hist>>

\* Faulty variant: the first data write sends the low byte.
WriteReg73LowByte ==
  /\ dpc = "L73"
  /\ dlog' = Append(dlog, BSP_RegisterWrite(data_register,
                 ShiftLeft(BitAnd(wdata, 255), 1)))
  /\ dpc' = "L76"
  /\ UNCHANGED <<command_register, data_register, wreg, wdata, sdata, dret,
                 tcp, pal, hist>>

\* Line 73: BSP_RegisterWrite(data_register, ((data & 0xff00) >> 8) << 1).
WriteReg73 ==
  /\ dpc = "L73"
  /\ dlog' = Append(dlog, BSP_RegisterWrite(data_register,
                 ShiftLeft(ShiftRight(BitAnd(wdata, 65280), 8), 1)))
  /\ dpc' = "L76"
  /\ UNCHANGED <<command_register, data_register, wreg, wdata, sdata, dret,
                 tcp, pal, hist>>

\* Line 76: BSP_RegisterWrite(data_register, (data & 0x00ff) << 1).
WriteReg76 ==
  /\ dpc = "L76"
  /\ dlog' = Append(dlog, BSP_RegisterWrite(data_register,
                 ShiftLeft(BitAnd(wdata, 255), 1)))
  /\ dpc' = "L78"
  /\ UNCHANGED <<command_register, data_register, wreg, wdata, sdata, dret,
                 tcp, pal, hist>>

\* Line 78: return DMD_OK.
WriteReg78 ==
  /\ dpc = "L78"
  /\ dret' = "DMD_OK"
  /\ dpc' = "idle"
  /\ UNCHANGED <<command_register, data_register, wreg, wdata, sdata, dlog,
                 tcp, pal, hist>>

(* ------------------------------ histories ----------------------------- *)
\* An event is the name of the action a context executes: an operation that
\* is a single store, the entry of a blocking call, or the line executed.

Calls   == {"WaitCall", "TakeCall"}
Returns == {"L350", "L453"}
ReadsC  == {"L321", "L332", "L339"}
ReadsM  == {"L424", "L435", "L442"}
WritesC == {"L327", "L341"}
WritesM == {"L430", "L444"}
Heads   == {"L321", "L332", "L424", "L435"}
Stores  == {"L324st", "L336st", "L427st", "L439st"}
Single  == {"InitCompletion", "FreeCompletion", "Complete",
            "InitMutex", "FreeMutex", "GiveMutex"}

\* A loop body has been executed: after its gTicks++, or, in the build
\* without SLPAL_TEST, when the loop test sends control back to itself.
IterDone(c, e) == e \in Stores \/ (e \in Heads /\ pc'[c] = pc[c])

\* iters saturates above every budget.
IterCap == MaxTicksAlone + 2

ArgNext(c, e, t) ==
  IF e \in Calls THEN [arg EXCEPT ![c] = t]
  ELSE IF e \in Returns THEN [arg EXCEPT ![c] = 0]
  ELSE arg

ItersNext(c, e) ==
  IF e \in Calls \cup Returns THEN [iters EXCEPT ![c] = 0]
  ELSE IF IterDone(c, e) /\ iters[c] < IterCap THEN [iters EXCEPT ![c] = @ + 1]
  ELSE iters

WroteNext(c, e) ==
  IF e \in Calls \cup Returns THEN [wrote EXCEPT ![c] = FALSE]
  ELSE IF pc[c] # "idle"
       THEN [wrote EXCEPT ![c] = @ \/ e \in WritesC \cup WritesM
                                   \/ comp' # comp \/ mutex' # mutex]
       ELSE wrote

SawNext(c, e) ==
  IF e \in Calls \cup Returns THEN [saw EXCEPT ![c] = FALSE]
  ELSE IF e \in ReadsC THEN [saw EXCEPT ![c] = @ \/ pendC]
  ELSE IF e \in ReadsM THEN [saw EXCEPT ![c] = @ \/ pendM]
  ELSE saw

StartNext(c, e) ==
  IF e = "WaitCall" THEN [start EXCEPT ![c] = comp]
  ELSE IF e = "TakeCall" THEN [start EXCEPT ![c] = (mutex > 0)]
  ELSE IF e \in Returns THEN [start EXCEPT ![c] = FALSE]
  ELSE start

G0Next(c, e) ==
  IF c = "fg" /\ e \in Calls THEN gTicks
  ELSE IF c = "fg" /\ e \in Returns THEN 0
  ELSE g0

PrevNext(c, e) ==
  IF c # "fg" THEN prev
  ELSE IF e \in Single THEN [op |-> e, arg |-> 0, ret |-> result'[c]]
  ELSE IF e = "L350" THEN [op |-> "Wait", arg |-> arg[c], ret |-> ret[c]]
  ELSE IF e = "L453" THEN [op |-> "Take", arg |-> arg[c], ret |-> ret[c]]
  ELSE prev

NSigNext(c, e) ==
  IF e \in {"InitCompletion", "FreeCompletion"} THEN 0
  ELSE IF e = "Complete" THEN nSig + 1
  ELSE nSig

\* nOk stops one above the largest nSig.
NOkNext(c, e) ==
  IF e \in {"InitCompletion", "FreeCompletion"} THEN 0
  ELSE IF e = "L350" /\ ret[c] = 0 /\ nOk <= MaxCount THEN nOk + 1
  ELSE nOk

PendCNext(c, e) ==
  IF e = "Complete" THEN TRUE
  ELSE IF e \in {"InitCompletion", "FreeCompletion"} \cup WritesC THEN FALSE
  ELSE pendC

PendMNext(c, e) ==
  IF e \in {"GiveMutex", "InitMutex"} THEN TRUE
  ELSE IF e \in {"FreeMutex"} \cup WritesM THEN FALSE
  ELSE pendM

HoldsNext(c, e) ==
  IF e = "L453" /\ ret[c] = 0 THEN [holds EXCEPT ![c] = TRUE]
  ELSE IF e = "GiveMutex" THEN [holds EXCEPT ![c] = FALSE]
  ELSE holds

CleanNext(c, e) ==
  /\ clean
  /\ e \notin {"InitMutex", "FreeMutex"}
  /\ e = "GiveMutex" => holds[c]

SigNext(c, e) ==
  IF c = "fg" /\ e \in Calls \cup Returns THEN NoSig
  ELSE IF /\ c = "isr" /\ sig = NoSig
          /\ \/ e = "Complete" /\ pc["fg"] \in WaitPcs
             \/ e = "GiveMutex" /\ pc["fg"] \in TakePcs
       THEN [at |-> pc["fg"], it |-> iters["fg"]]
  ELSE sig

EvNext(c, e) == [c |-> c, op |-> e]

FreedNext(c, e) ==
  IF e = "FreeMutex" THEN TRUE
  ELSE IF e \in {"GiveMutex", "InitMutex"} THEN FALSE
  ELSE freed

SinceNext(c, e) ==
  IF e \in {"GiveMutex", "InitMutex"} THEN [d \in Ctx |-> FALSE]
  ELSE IF e = "TakeCall" THEN [since EXCEPT ![c] = freed]
  ELSE IF e = "L453" THEN [since EXCEPT ![c] = FALSE]
  ELSE since

\* "set" or "clear": the flag an init/free met, no SLPAL_Complete since.
DropNext(c, e) ==
  IF e \in {"InitCompletion", "FreeCompletion"}
    THEN (IF comp THEN "set" ELSE "clear")
  ELSE IF e = "Complete" THEN "none"
  ELSE drop

StrayNext(c, e) ==
  IF e \in {"InitMutex", "FreeMutex"} THEN FALSE
  ELSE IF e = "GiveMutex"
       THEN ~holds[c] /\ \E d \in Ctx \ {c} : holds[d]
  ELSE stray

LateNext(c, e) ==
  IF c = "fg" /\ e = "L350"
    THEN ret[c] = SLPAL_ERROR_TIMEOUT /\ sig # NoSig
  ELSE IF e \in {"InitCompletion", "FreeCompletion"} THEN FALSE
  ELSE late

\* n: SLPAL_Complete calls since the last wait returned (or init/free);
\* got: how many of them the last wait consumed, until the next signal.
BurstNext(c, e) ==
  IF e \in {"InitCompletion", "FreeCompletion"} THEN [n |-> 0, got |-> 0]
  ELSE IF e = "Complete" THEN [n |-> burst.n + 1, got |-> 0]
  ELSE IF e = "L350"
       THEN [n |-> 0, got |-> IF ret[c] = 0 THEN burst.n ELSE 0]
  ELSE burst

\* The histories named in T follow event e of context c; the others stay.
Hist(T, c, e, t) ==
  /\ arg'   = IF "arg"   \in T THEN ArgNext(c, e, t) ELSE arg
  /\ iters' = IF "iters" \in T THEN ItersNext(c, e)  ELSE iters
  /\ wrote' = IF "wrote" \in T THEN WroteNext(c, e)  ELSE wrote
  /\ saw'   = IF "saw"   \in T THEN SawNext(c, e)    ELSE saw
  /\ start' = IF "start" \in T THEN StartNext(c, e)  ELSE start
  /\ g0'    = IF "g0"    \in T THEN G0Next(c, e)     ELSE g0
  /\ prev'  = IF "prev"  \in T THEN PrevNext(c, e)   ELSE prev
  /\ nSig'  = IF "count" \in T THEN NSigNext(c, e)   ELSE nSig
  /\ nOk'   = IF "count" \in T THEN NOkNext(c, e)    ELSE nOk
  /\ pendC' = IF "pend"  \in T THEN PendCNext(c, e)  ELSE pendC
  /\ pendM' = IF "pend"  \in T THEN PendMNext(c, e)  ELSE pendM
  /\ holds' = IF "holds" \in T THEN HoldsNext(c, e)  ELSE holds
  /\ clean' = IF "holds" \in T THEN CleanNext(c, e)  ELSE clean
  /\ sig'   = IF "sig"   \in T THEN SigNext(c, e)    ELSE sig
  /\ ev'    = IF "ev"    \in T THEN EvNext(c, e)     ELSE ev
  /\ freed' = IF "freed" \in T THEN FreedNext(c, e)  ELSE freed
  /\ since' = IF "freed" \in T THEN SinceNext(c, e)  ELSE since
  /\ drop'  = IF "drop"  \in T THEN DropNext(c, e)   ELSE drop
  /\ stray' = IF "stray" \in T THEN StrayNext(c, e)  ELSE stray
  /\ late'  = IF "late"  \in T THEN LateNext(c, e)   ELSE late
  /\ burst' = IF "burst" \in T THEN BurstNext(c, e)  ELSE burst
  /\ s0'    = s0
  /\ UNCHANGED <<tfn, dfn, dinit>>

(* ------------------------------- systems ------------------------------ *)
\* ops[c] is the set of operations context c calls, TA the tick arguments
\* passed to the blocking calls.  Where the signals are counted, at most
\* MaxCount are issued between two init/free calls.

RunComp(T, ops, TA) ==
  \/ \E c \in Ctx : /\ "InitCompletion" \in ops[c]
                    /\ SLPAL_InitCompletion(c) /\ Hist(T, c, "InitCompletion", 0)
  \/ \E c \in Ctx : /\ "FreeCompletion" \in ops[c]
                    /\ SLPAL_FreeCompletion(c) /\ Hist(T, c, "FreeCompletion", 0)
  \/ \E c \in Ctx : /\ "Complete" \in ops[c]
                    /\ "count" \in T => nSig < MaxCount
                    /\ SLPAL_Complete(c) /\ Hist(T, c, "Complete", 0)
  \/ \E c \in Ctx, t \in TA : /\ "Wait" \in ops[c]
                              /\ WaitCall(c, t) /\ Hist(T, c, "WaitCall", t)
  \/ \E c \in Ctx : W321(c) /\ Hist(T, c, "L321", 0)
  \/ \E c \in Ctx : W327(c) /\ Hist(T, c, "L327", 0)
  \/ \E c \in Ctx : W332(c) /\ Hist(T, c, "L332", 0)
  \/ \E c \in Ctx : W339(c) /\ Hist(T, c, "L339", 0)
  \/ \E c \in Ctx : W341(c) /\ Hist(T, c, "L341", 0)
  \/ \E c \in Ctx : W350(c) /\ Hist(T, c, "L350", 0)

RunMutex(T, ops, TA) ==
  \/ \E c \in Ctx : /\ "InitMutex" \in ops[c]
                    /\ SLPAL_InitMutex(c) /\ Hist(T, c, "InitMutex", 0)
  \/ \E c \in Ctx : /\ "FreeMutex" \in ops[c]
                    /\ SLPAL_FreeMutex(c) /\ Hist(T, c, "FreeMutex", 0)
  \/ \E c \in Ctx : /\ "GiveMutex" \in ops[c]
                    /\ SLPAL_GiveMutex(c) /\ Hist(T, c, "GiveMutex", 0)
  \/ \E c \in Ctx, t \in TA : /\ "Take" \in ops[c]
                              /\ TakeCall(c, t) /\ Hist(T, c, "TakeCall", t)
  \/ \E c \in Ctx : T424(c) /\ Hist(T, c, "L424", 0)
  \/ \E c \in Ctx : T430(c) /\ Hist(T, c, "L430", 0)
  \/ \E c \in Ctx : T435(c) /\ Hist(T, c, "L435", 0)
  \/ \E c \in Ctx : T442(c) /\ Hist(T, c, "L442", 0)
  \/ \E c \in Ctx : T444(c) /\ Hist(T, c, "L444", 0)
  \/ \E c \in Ctx : T453(c) /\ Hist(T, c, "L453", 0)

\* The gTicks++ steps exist in the SLPAL_TEST build only.
RunTicks(T) ==
  \/ \E c \in Ctx : W324(c)   /\ Hist(T, c, "L324", 0)
  \/ \E c \in Ctx : W324st(c) /\ Hist(T, c, "L324st", 0)
  \/ \E c \in Ctx : W336(c)   /\ Hist(T, c, "L336", 0)
  \/ \E c \in Ctx : W336st(c) /\ Hist(T, c, "L336st", 0)
  \/ \E c \in Ctx : T427(c)   /\ Hist(T, c, "L427", 0)
  \/ \E c \in Ctx : T427st(c) /\ Hist(T, c, "L427st", 0)
  \/ \E c \in Ctx : T439(c)   /\ Hist(T, c, "L439", 0)
  \/ \E c \in Ctx : T439st(c) /\ Hist(T, c, "L439st", 0)

RunCrit(T, ops) ==
  \/ \E c \in Ctx : /\ "CriticalEnter" \in ops[c]
                    /\ SLPAL_CriticalEnter(c) /\ Hist(T, c, "CriticalEnter", 0)
  \/ \E c \in Ctx : /\ "CriticalExit" \in ops[c]
                    /\ SLPAL_CriticalExit(c) /\ Hist(T, c, "CriticalExit", 0)

RunMarks(T, ops) ==
  \/ \E c \in Ctx : /\ "IsrEnter" \in ops[c]
                    /\ SLPAL_IsrEnter(c) /\ Hist(T, c, "IsrEnter", 0)
  \/ \E c \in Ctx : /\ "IsrExit" \in ops[c]
                    /\ SLPAL_IsrExit(c) /\ Hist(T, c, "IsrExit", 0)
  \/ \E c \in Ctx : /\ "ThreadPriorityGet" \in ops[c]
                    /\ SLPAL_ThreadPriorityGet(c)
                    /\ Hist(T, c, "ThreadPriorityGet", 0)

CompOps  == {"InitCompletion", "FreeCompletion", "Complete", "Wait"}
MutexOps == {"InitMutex", "FreeMutex", "GiveMutex", "Take"}

(* Both contexts signal and wait; the foreground, which owns the object,
   also initialises and frees it (no call is in progress then). *)
TComp == {"arg", "count"}
OpsComp == [c \in Ctx |-> IF c = "fg" THEN CompOps ELSE {"Complete", "Wait"}]
InitComp == InitProg /\ InitHist /\ slpalTest = FALSE
NextComp == RunComp(TComp, OpsComp, SLPAL_WAIT_FOREVER .. MaxTicks)
SpecComp == InitComp /\ [][NextComp]_vars

(* Both contexts call every operation of the mutex. *)
TMutex == {"arg", "wrote", "holds"}
OpsMutex == [c \in Ctx |-> MutexOps]
InitMutexSys == InitProg /\ InitHist /\ slpalTest = FALSE
NextMutex == RunMutex(TMutex, OpsMutex, SLPAL_WAIT_FOREVER .. MaxTicks)
SpecMutex == InitMutexSys /\ [][NextMutex]_vars

(* One waiter: the foreground calls everything, the handler only signals
   and gives.  Both builds. *)
TSig == {"arg", "iters", "saw", "start", "pend", "sig"}
OpsSig == [c \in Ctx |-> IF c = "fg" THEN CompOps \cup MutexOps
                         ELSE {"Complete", "GiveMutex"}]
InitSig == InitProg /\ InitHist /\ slpalTest \in BOOLEAN
NextSig ==
  \/ RunComp(TSig, OpsSig, SLPAL_WAIT_FOREVER .. MaxTicks)
  \/ RunMutex(TSig, OpsSig, SLPAL_WAIT_FOREVER .. MaxTicks)
  \/ RunTicks(TSig)
SpecSig == InitSig /\ [][NextSig]_vars

(* The same system where the foreground keeps executing and the handler
   keeps being raised: the hardware operation the foreground waits for
   does interrupt. *)
FgRuns ==
  /\ pc["fg"] # "idle"
  /\ NextSig
  /\ <<pc, ticks, gTicks, gTmp>>' # <<pc, ticks, gTicks, gTmp>>
IsrSignals == SLPAL_Complete("isr") /\ Hist(TSig, "isr", "Complete", 0)
SpecSigFair == SpecSig /\ WF_vars(FgRuns) /\ WF_vars(IsrSignals)

(* The same system where only the foreground is known to keep executing:
   the handler signals and gives whenever it likes, or never. *)
SpecSigFg == SpecSig /\ WF_vars(FgRuns)

(* One waiter again, recording in addition the stores of each call and
   the waits that timed out though the handler signalled meanwhile. *)
TKeep == TSig \cup {"wrote", "late"}
NextKeep ==
  \/ RunComp(TKeep, OpsSig, SLPAL_WAIT_FOREVER .. MaxTicks)
  \/ RunMutex(TKeep, OpsSig, SLPAL_WAIT_FOREVER .. MaxTicks)
  \/ RunTicks(TKeep)
SpecKeep == InitSig /\ [][NextKeep]_vars

(* The foreground alone, in the SLPAL_TEST build. *)
TAlone == {"arg", "iters", "wrote", "start", "g0", "prev", "count"}
OpsAlone == [c \in Ctx |-> IF c = "fg" THEN CompOps \cup MutexOps ELSE {}]
InitAlone == InitProg /\ InitHist /\ slpalTest = TRUE
NextAlone ==
  \/ RunComp(TAlone, OpsAlone, SLPAL_WAIT_FOREVER .. MaxTicksAlone)
  \/ RunMutex(TAlone, OpsAlone, SLPAL_WAIT_FOREVER .. MaxTicksAlone)
  \/ RunTicks(TAlone)
SpecAlone == InitAlone /\ [][NextAlone]_vars

(* Both contexts call every operation of the mutex; the steps, the frees
   and the gives of contexts that hold nothing are recorded. *)
THold == {"arg", "holds", "ev", "freed", "stray"}
InitHold == InitProg /\ InitHist /\ slpalTest = FALSE
NextHold == RunMutex(THold, OpsMutex, SLPAL_WAIT_FOREVER .. MaxTicks)
SpecHold == InitHold /\ [][NextHold]_vars

(* The foreground opens and closes critical regions, nested up to MaxDepth
   and closed in reverse order, around its calls on the completion; the
   handler signals.  Every initial mask and every handler priority. *)
TCrit == {"ev"}
OpsCrit == [c \in Ctx |-> IF c = "fg"
                            THEN CompOps \cup {"CriticalEnter", "CriticalExit"}
                            ELSE {"Complete"}]
InitCrit ==
  /\ InitObjects
  /\ basepri \in 0..MaxPrio
  /\ isrPrio \in 0..MaxPrio
  /\ InitHist
  /\ slpalTest = FALSE
NextCrit ==
  \/ RunCrit(TCrit, OpsCrit)
  \/ RunComp(TCrit, OpsCrit, SLPAL_WAIT_FOREVER .. MaxTicks)
SpecCrit == InitCrit /\ [][NextCrit]_vars

(* Both contexts call every operation on both objects, mark handlers and
   query the priority; the foreground also opens critical regions. *)
TAll == {"ev"}
MarkOps == {"IsrEnter", "IsrExit", "ThreadPriorityGet"}
OpsAll == [c \in Ctx |-> IF c = "fg"
                           THEN CompOps \cup MutexOps \cup MarkOps
                                \cup {"CriticalEnter", "CriticalExit"}
                           ELSE CompOps \cup MutexOps \cup MarkOps]
InitAll == InitProg /\ InitHist /\ slpalTest = FALSE
NextAll ==
  \/ RunComp(TAll, OpsAll, SLPAL_WAIT_FOREVER .. MaxTicks)
  \/ RunMutex(TAll, OpsAll, SLPAL_WAIT_FOREVER .. MaxTicks)
  \/ RunCrit(TAll, OpsAll)
  \/ RunMarks(TAll, OpsAll)
SpecAll == InitAll /\ [][NextAll]_vars

(* The foreground owns the completion: it initialises, frees, signals and
   waits; the handler signals. *)
TDrop == {"arg", "ev", "drop"}
OpsDrop == [c \in Ctx |-> IF c = "fg" THEN CompOps ELSE {"Complete"}]
InitDrop == InitProg /\ InitHist /\ slpalTest = FALSE
NextDrop == RunComp(TDrop, OpsDrop, SLPAL_WAIT_FOREVER .. MaxTicks)
SpecDrop == InitDrop /\ [][NextDrop]_vars

(* The foreground alone signals in bursts and waits, in the build without
   SLPAL_TEST; at most MaxCount signals between two init/free calls. *)
TBurst == {"arg", "iters", "count", "burst"}
NextBurst == RunComp(TBurst, OpsAlone, SLPAL_WAIT_FOREVER .. MaxTicks)
InitBurst == InitProg /\ InitHist /\ slpalTest = FALSE
SpecBurst == InitBurst /\ [][NextBurst]_vars

(* One waiter; the calls are also given negative ticks other than
   SLPAL_WAIT_FOREVER.  The foreground keeps executing. *)
TNeg == {"arg", "iters", "start", "sig"}
NextNeg ==
  \/ RunComp(TNeg, OpsSig, (0 - MaxNeg) .. MaxTicks)
  \/ RunMutex(TNeg, OpsSig, (0 - MaxNeg) .. MaxTicks)
  \/ RunTicks(TNeg)
FgRunsNeg ==
  /\ pc["fg"] # "idle"
  /\ NextNeg
  /\ <<pc, ticks, gTicks, gTmp>>' # <<pc, ticks, gTicks, gTmp>>
SpecNeg == InitSig /\ [][NextNeg]_vars /\ WF_vars(FgRunsNeg)

(* The trace recorder reads and writes over TCP, any sizes, any results of
   the socket functions. *)
InitTcp == InitProg /\ InitHist /\ slpalTest = FALSE
NextTcp ==
  \/ \E sz \in 0..MaxSize : trcTcpRead(sz)
  \/ \E r \in SockRets : TcpRead53(r)
  \/ \E r \in SockRets : TcpRead55(r)
  \/ \E r \in SockRets : TcpRead57(r)
  \/ \E sz \in 0..MaxSize : trcTcpWrite(sz)
  \/ \E r \in SockRets : TcpWrite48(r)
SpecTcp == InitTcp /\ [][NextTcp]_vars

(* The display driver initialises the interface, possibly again with other
   addresses, and writes registers, possibly before any initialisation. *)
InitDmd == InitProg /\ InitHist /\ slpalTest = FALSE
NextDmd ==
  \/ \E c \in Addrs, d \in Addrs : DMDIF_init(c, d)
  \/ \E r \in Regs, d \in Datas : DMDIF_writeReg(r, d)
  \/ setNextReg196
  \/ setNextReg199
  \/ setNextReg202
  \/ WriteReg73
  \/ WriteReg76
  \/ WriteReg78
SpecDmd == InitDmd /\ [][NextDmd]_vars

TypeOK ==
  /\ comp \in BOOLEAN
  /\ mutex \in 0..1
  /\ gTicks \in 0..(TickWrap - 1)
  /\ pc \in [Ctx -> {"idle"} \cup WaitPcs \cup TakePcs]
  /\ ret \in [Ctx -> {0, SLPAL_ERROR_TIMEOUT}]
  /\ result \in [Ctx -> {0, 1, SLPAL_ERROR_TIMEOUT}]
  /\ basepri \in 0..MaxPrio
  /\ isrPrio \in 0..MaxPrio
  /\ \A c \in Ctx : Len(tok[c]) <= MaxDepth

(* ------------------------------ properties ---------------------------- *)

Timeout(c) == ret[c] = SLPAL_ERROR_TIMEOUT

\* C1: as long as every give comes from a context that took the mutex and
\* has not given it since, and the mutex is not re-initialised or freed, the
\* foreground and the handler never both hold a successful, ungiven take.
C1_MutualExclusion == clean => ~(holds["fg"] /\ holds["isr"])

\* C2: the waits that returned 0 since the last init/free never outnumber
\* the SLPAL_Complete calls issued since then.
C2_WaitsWithinSignals == nOk <= nSig

\* C10: a take that is about to return SLPAL_ERROR_TIMEOUT has executed no
\* store to the mutex and has not changed its value, whatever the handler
\* gave or took meanwhile.
C10_TimeoutTakeWritesNothing ==
  \A c \in Ctx : pc[c] = "L453" /\ Timeout(c) => ~wrote[c]

\* A foreground take times out although the handler gave the mutex after
\* the last check.
C10_Witness ==
  /\ pc["fg"] = "L453" /\ Timeout("fg") /\ arg["fg"] > 0
  /\ mutex = 1 /\ ~wrote["fg"]

NB == SLPAL_NON_BLOCKING
FgAt(l) == pc["fg"] = l

BoundedWaitReturns == FgAt("L350") /\ arg["fg"] > 0 /\ ~start["fg"]

\* C4 as stated: a first signal after k < n iterations gives 0, a first
\* signal after n or more iterations gives SLPAL_ERROR_TIMEOUT.
C4_SignalAfterBudgetTimesOut ==
  BoundedWaitReturns /\ sig # NoSig =>
    IF sig.it < arg["fg"] THEN ret["fg"] = 0 ELSE Timeout("fg")

\* C4 amended: a first signal after k < n iterations gives 0; the call
\* returns SLPAL_ERROR_TIMEOUT exactly when no signal was issued before the
\* check of line 339 read the flag cleared (the first signal, if any, finds
\* the call at its return).
C4_SignalBeforeLastCheckSucceeds ==
  BoundedWaitReturns =>
    /\ sig # NoSig /\ sig.it < arg["fg"] => ret["fg"] = 0
    /\ Timeout("fg") <=> sig.at \in {"none", "L350"}

\* The budget was used up, the signal came before the check of line 339,
\* and the call returns 0.
C4_Witness ==
  /\ BoundedWaitReturns /\ sig.at \in {"L332", "L339"}
  /\ sig.it = arg["fg"] /\ ret["fg"] = 0

\* C5: the foreground alone.  The mutex is held when a take returns 0 and
\* free after a give; a non-blocking take right after init or give returns
\* 0, and a non-blocking take right after it returns SLPAL_ERROR_TIMEOUT.
C5_TakeGiveAlone ==
  /\ FgAt("L453") /\ ret["fg"] = 0 => mutex = 0
  /\ FgAt("idle") /\ prev.op = "GiveMutex" => mutex = 1
  /\ FgAt("L453") /\ arg["fg"] = NB /\ prev.op \in {"InitMutex", "GiveMutex"}
       => ret["fg"] = 0
  /\ FgAt("L453") /\ arg["fg"] = NB /\ prev = [op |-> "Take", arg |-> NB, ret |-> 0]
       => Timeout("fg")

\* The second of two consecutive non-blocking takes times out.
C5_Witness ==
  /\ FgAt("L453") /\ arg["fg"] = NB /\ Timeout("fg")
  /\ prev = [op |-> "Take", arg |-> NB, ret |-> 0]

WaitsForever == pc["fg"] \in {"L321", "L324", "L324st", "L327"}

\* C6: a wait with SLPAL_WAIT_FOREVER returns only 0 and only after it read
\* the flag while a signal was pending; and when the handler keeps
\* signalling, the wait reaches its return with 0 and the flag cleared.
C6_WaitForever ==
  /\ [](FgAt("L350") /\ arg["fg"] = SLPAL_WAIT_FOREVER
          => ret["fg"] = 0 /\ saw["fg"])
  /\ [](WaitsForever => comp \/ pc["fg"] \in {"L321", "L324", "L324st"})
  /\ (WaitsForever ~> (FgAt("L350") /\ ret["fg"] = 0 /\ comp = FALSE))

\* A wait-forever that polled a cleared flag returns 0 with the flag cleared.
C6_Witness ==
  /\ FgAt("L350") /\ arg["fg"] = SLPAL_WAIT_FOREVER /\ ~start["fg"]
  /\ iters["fg"] > 0 /\ ret["fg"] = 0 /\ comp = FALSE

WaitedForeverOk == prev = [op |-> "Wait", arg |-> SLPAL_WAIT_FOREVER, ret |-> 0]

\* C7: the foreground alone.  A wait-forever right after SLPAL_Complete
\* returns 0 with no loop body executed (gTicks untouched); after it the
\* flag is cleared, and a non-blocking wait right after it times out.
C7_SignalThenWait ==
  /\ FgAt("L350") /\ arg["fg"] = SLPAL_WAIT_FOREVER /\ prev.op = "Complete"
       => ret["fg"] = 0 /\ iters["fg"] = 0 /\ gTicks = g0
  /\ FgAt("idle") /\ WaitedForeverOk => comp = FALSE
  /\ FgAt("L350") /\ arg["fg"] = NB /\ WaitedForeverOk => Timeout("fg")

\* The non-blocking wait that follows the successful wait-forever times out.
C7_Witness ==
  FgAt("L350") /\ arg["fg"] = NB /\ WaitedForeverOk /\ Timeout("fg")

\* C8: the foreground alone.  A non-blocking wait on a completion not
\* signalled since its init/free times out with no loop body executed, no
\* store to the flag, and the flag still cleared.
C8_NonBlockingNeverSignalled ==
  FgAt("L350") /\ arg["fg"] = NB /\ nSig = 0 =>
    /\ Timeout("fg") /\ iters["fg"] = 0 /\ gTicks = g0
    /\ ~wrote["fg"] /\ comp = FALSE

\* A non-blocking wait right after SLPAL_InitCompletion times out.
C8_Witness ==
  /\ FgAt("L350") /\ arg["fg"] = NB /\ nSig = 0
  /\ prev.op = "InitCompletion" /\ Timeout("fg")

\* C9: the foreground alone.  A wait with budget n > 0 that began on a
\* cleared flag executes n loop bodies, advances gTicks by n, times out and
\* leaves the flag cleared.
C9_BudgetConsumed ==
  BoundedWaitReturns =>
    /\ Timeout("fg") /\ comp = FALSE /\ ticks["fg"] = 0
    /\ iters["fg"] = arg["fg"]
    /\ (gTicks + TickWrap - g0) % TickWrap = arg["fg"]

\* The stated scenario: wait(5) on an empty flag.
C9_Witness ==
  /\ BoundedWaitReturns /\ arg["fg"] = 5 /\ prev.op = "InitCompletion"
  /\ Timeout("fg") /\ iters["fg"] = 5

\* C11: right after any SLPAL_GiveMutex the mutex is free (1) and the call
\* has returned 0, whether the mutex was free or held before and whoever
\* held it; the give of a context that holds nothing is not refused.
C11_GiveAlwaysFrees ==
  ev.op = "GiveMutex" => mutex = 1 /\ result[ev.c] = 0

\* A context that held nothing gave the mutex the other one holds, and a
\* second take then succeeded: both hold it.
C11_Witness == stray /\ holds["fg"] /\ holds["isr"]

\* C12: SLPAL_InitMutex leaves the mutex free and SLPAL_FreeMutex leaves it
\* held.  From a SLPAL_FreeMutex until the next give or init the mutex stays
\* held, a take called in that span returns SLPAL_ERROR_TIMEOUT when its
\* ticks are not negative, and one called with SLPAL_WAIT_FOREVER stays in
\* its polling loop.
C12_FreedMutexStaysHeld ==
  /\ ev.op = "InitMutex" => mutex = 1
  /\ ev.op = "FreeMutex" => mutex = 0
  /\ freed => mutex = 0
  /\ \A c \in Ctx :
       since[c] =>
         /\ pc[c] \notin {"L430", "L444"}
         /\ pc[c] = "L453" => Timeout(c) /\ arg[c] >= 0
         /\ arg[c] = SLPAL_WAIT_FOREVER => pc[c] \in {"L424", "L427", "L427st"}

\* The foreground polls a freed mutex forever while a non-blocking take of
\* the handler times out.
C12_Witness ==
  /\ since["fg"] /\ arg["fg"] = SLPAL_WAIT_FOREVER /\ pc["fg"] = "L424"
  /\ since["isr"] /\ pc["isr"] = "L453" /\ Timeout("isr")

\* Mask b excludes every interrupt at or below the threshold priority.
Excluded(b) ==
  \A p \in CORE_ATOMIC_BASE_PRIORITY_LEVEL .. MaxPrio : Masked(p, b)

Depth == Len(tok["fg"])

\* C13: for every initial interrupt mask s, one SLPAL_CriticalEnter returns
\* s and excludes the interrupts at or below the threshold, no handler of
\* such an interrupt takes a step before the exit, and the SLPAL_CriticalExit
\* called with the returned value leaves the mask equal to s.
C13_RoundTrip ==
  /\ Depth = 1 /\ ev.op = "CriticalEnter" => tok["fg"][1] = s0
  /\ Depth = 1 => Excluded(basepri)
  /\ Depth = 1 /\ ev.c = "isr" => isrPrio < CORE_ATOMIC_BASE_PRIORITY_LEVEL
  /\ Depth = 0 /\ ev.op = "CriticalExit" => basepri = s0

\* A mask that excluded only the lowest priority has been restored by the
\* exit of a region.
C13_Witness ==
  Depth = 0 /\ ev.op = "CriticalExit" /\ s0 = MaxPrio /\ basepri = s0

\* C14: with regions nested to any depth within the bound and exited in
\* reverse order, the interrupts at or below the threshold stay excluded
\* while any region is open, after every inner exit too, no handler of such
\* an interrupt takes a step meanwhile, and once the outermost region is
\* exited the mask is the one found before the outermost enter.
C14_NestedLifo ==
  /\ \A k \in 1..Depth :
       tok["fg"][k] = (IF k = 1 THEN s0 ELSE CORE_EnterAtomicMask(s0))
  /\ Depth >= 1 => /\ basepri = CORE_EnterAtomicMask(s0)
                   /\ Excluded(basepri)
                   /\ ev.c = "isr" =>
                        ~Masked(isrPrio, CORE_ATOMIC_BASE_PRIORITY_LEVEL)
  /\ Depth = 0 => basepri = s0

\* The inner of two regions has been exited and the outer one still
\* excludes the threshold, starting from a mask that excluded nothing.
C14_Witness ==
  /\ Depth = 1 /\ ev.op = "CriticalExit" /\ s0 = 0
  /\ Excluded(basepri) /\ isrPrio = CORE_ATOMIC_BASE_PRIORITY_LEVEL

\* C15: every operation that is a single store returns 0 from every state,
\* and SLPAL_WaitForCompletion and SLPAL_TakeMutex return 0 or
\* SLPAL_ERROR_TIMEOUT: no other status is ever returned.
C15_OnlyTimeout ==
  /\ ev.op \in Single => result[ev.c] = 0
  /\ ev.op \in Returns => result[ev.c] \in {0, SLPAL_ERROR_TIMEOUT}

\* A wait has returned SLPAL_ERROR_TIMEOUT to one context after a take
\* returned it to the other.
C15_Witness ==
  /\ ev.op = "L350" /\ result[ev.c] = SLPAL_ERROR_TIMEOUT
  /\ \A c \in Ctx : result[c] = SLPAL_ERROR_TIMEOUT
  /\ mutex = 0 /\ ~comp

\* C17: a step of SLPAL_IsrEnter or SLPAL_IsrExit changes no completion, no
\* mutex, no interrupt mask and no other program variable, so a run with
\* such calls and the run without them pass through the same states.
C17_IsrMarksChangeNothing ==
  [][ev'.op \in {"IsrEnter", "IsrExit"} => UNCHANGED prog]_vars

\* The handler has marked its exit while the foreground is inside a call,
\* the completion set and the mutex held.
C17_Witness ==
  /\ ev.op = "IsrExit" /\ ev.c = "isr"
  /\ pc["fg"] # "idle" /\ comp /\ mutex = 0

C19_ReadThenWriteAtomic ==
  /\ pc["fg"] \in WritesC =>
       ~(ev.c = "isr" /\ ev.op \in {"Complete", "WaitCall"} \cup WaitPcs)
  /\ pc["fg"] \in WritesM =>
       ~(ev.c = "isr" /\ ev.op \in {"GiveMutex", "TakeCall"} \cup TakePcs)

\* C16: right after SLPAL_InitCompletion or SLPAL_FreeCompletion the flag is
\* cleared and 0 was returned, whether the flag was set or not; as long as
\* no SLPAL_Complete follows, a non-blocking wait returns
\* SLPAL_ERROR_TIMEOUT.
C16_InitAndFreeDiscard ==
  /\ ev.op \in {"InitCompletion", "FreeCompletion"} =>
       ~comp /\ result[ev.c] = 0
  /\ drop # "none" => ~comp
  /\ pc["fg"] = "L350" /\ arg["fg"] = SLPAL_NON_BLOCKING /\ drop # "none" =>
       Timeout("fg")

\* A signal was pending when the completion was initialised or freed, and
\* the non-blocking wait that followed is about to return the timeout.
C16_Witness ==
  /\ drop = "set" /\ pc["fg"] = "L350" /\ Timeout("fg")
  /\ arg["fg"] = SLPAL_NON_BLOCKING

\* The line of SLPAL_WaitForCompletion that corresponds to a line of
\* SLPAL_TakeMutex.
TakeToWait ==
  [l \in TakePcs |->
     CASE l = "L424" -> "L321" [] l = "L427" -> "L324" [] l = "L427st" -> "L324st"
       [] l = "L430" -> "L327" [] l = "L435" -> "L332" [] l = "L439" -> "L336"
       [] l = "L439st" -> "L336st" [] l = "L442" -> "L339" [] l = "L444" -> "L341"
       [] l = "L453" -> "L350"]

\* The three-way policy: the status of a call given ticks a that began with
\* the flag set (st) or first met the handler's signal at line l.
PolicyRet(a, st, l) ==
  IF a = SLPAL_WAIT_FOREVER \/ st \/ l \notin {"none", "L350"}
    THEN 0
    ELSE SLPAL_ERROR_TIMEOUT

\* The loop bodies it has executed when it returns; k were done when the
\* signal came.
PolicyIters(a, st, l, k) ==
  IF st THEN 0
  ELSE IF l \in {"none", "L350", "L339"} THEN a
  ELSE IF l \in {"L321", "L332"} THEN k
  ELSE IF k < IterCap THEN k + 1
  ELSE IterCap

\* C20: a take and a wait that are given the same ticks, begin in
\* corresponding states (free for set, held for cleared) and meet the
\* handler's first give or signal at corresponding lines return the same
\* status after the same number of loop bodies, and the mutex is free at
\* the return exactly when the completion is set: both follow the same
\* three-way policy.
C20_TakeFollowsWaitPolicy ==
  /\ pc["fg"] = "L350" =>
       /\ ret["fg"] = PolicyRet(arg["fg"], start["fg"], sig.at)
       /\ iters["fg"] = PolicyIters(arg["fg"], start["fg"], sig.at, sig.it)
       /\ comp <=> pendC
  /\ pc["fg"] = "L453" =>
       LET l == IF sig.at = "none" THEN "none" ELSE TakeToWait[sig.at] IN
       /\ ret["fg"] = PolicyRet(arg["fg"], start["fg"], l)
       /\ iters["fg"] = PolicyIters(arg["fg"], start["fg"], l, sig.it)
       /\ mutex > 0 <=> pendM

\* A bounded take is about to return 0 after the handler gave the mutex
\* inside the second loop body.
C20_Witness ==
  /\ pc["fg"] = "L453" /\ arg["fg"] = MaxTicks /\ ~start["fg"]
  /\ sig.at = "L439st" /\ sig.it = 1 /\ iters["fg"] = 2 /\ ret["fg"] = 0

\* The lines of the bounded branches, and those inside a loop body.
BoundedPcs == {"L332", "L336", "L336st", "L339", "L341", "L350",
               "L435", "L439", "L439st", "L442", "L444", "L453"}
BodyPcs == {"L336", "L336st", "L439", "L439st"}

\* C21: in a wait or take called with ticks >= 0, whatever the handler
\* signals or gives and whenever, the budget never goes below 0, changes
\* only by one decrement per loop body, so that at most ticks bodies are
\* executed; and the call returns as long as the foreground keeps running.
C21_BoundedCallsReturn ==
  /\ [](pc["fg"] \in BoundedPcs /\ arg["fg"] >= 0 =>
          /\ ticks["fg"] >= 0
          /\ iters["fg"] <= arg["fg"]
          /\ ticks["fg"] + iters["fg"] =
               arg["fg"] - (IF pc["fg"] \in BodyPcs THEN 1 ELSE 0))
  /\ [][pc["fg"] \in BoundedPcs /\ pc'["fg"] # "idle" =>
          \/ ticks'["fg"] = ticks["fg"]
          \/ /\ pc["fg"] \in {"L332", "L435"}
             /\ ticks'["fg"] = ticks["fg"] - 1]_vars
  /\ (pc["fg"] \in BoundedPcs /\ arg["fg"] >= 0) ~> (pc["fg"] = "idle")

\* A take with the largest budget returns the timeout after exactly that
\* many loop bodies; the handler gave the mutex after the last check.
C21_Witness ==
  /\ pc["fg"] = "L453" /\ arg["fg"] = MaxTicks /\ iters["fg"] = MaxTicks
  /\ ticks["fg"] = 0 /\ Timeout("fg") /\ sig.at = "L453"

\* C22: one waiter, the handler signals at any point.  A wait that returns
\* SLPAL_ERROR_TIMEOUT has not stored to the flag; if the handler signalled
\* during it, the flag is set at the return and stays set, and the next
\* wait of the foreground, when non-blocking and with no init/free before
\* it, returns 0.
C22_NoSignalLost ==
  /\ FgAt("L350") /\ Timeout("fg") => ~wrote["fg"]
  /\ FgAt("L350") /\ Timeout("fg") /\ sig # NoSig => comp
  /\ late /\ pc["fg"] \notin WaitPcs => comp
  /\ late /\ FgAt("L350") /\ arg["fg"] = NB =>
       ret["fg"] = 0 /\ start["fg"] /\ iters["fg"] = 0

\* A bounded wait timed out, the handler having signalled after its last
\* check, and the non-blocking wait after it is about to return 0.
C22_Witness ==
  /\ late /\ FgAt("L350") /\ arg["fg"] = NB /\ ret["fg"] = 0
  /\ ~comp

\* C23: any number k >= 1 of SLPAL_Complete calls with no wait between
\* them leaves the flag set once: the wait that follows returns 0 at its
\* first check and clears the flag, and a wait with ticks >= 0 called after
\* it with no new signal returns SLPAL_ERROR_TIMEOUT.
C23_FlagNotCounter ==
  /\ burst.n >= 1 /\ FgAt("idle") => comp
  /\ burst.n >= 1 /\ FgAt("L350") =>
       ret["fg"] = 0 /\ iters["fg"] = 0 /\ ~comp
  /\ burst.n = 0 /\ burst.got >= 1 => ~comp
  /\ burst.n = 0 /\ burst.got >= 1 /\ FgAt("L350") /\ arg["fg"] >= 0 =>
       Timeout("fg")

\* One wait consumed MaxCount signals, and the bounded wait after it is
\* about to return the timeout.
C23_Witness ==
  /\ burst.n = 0 /\ burst.got = MaxCount
  /\ FgAt("L350") /\ arg["fg"] = MaxTicks /\ Timeout("fg")

\* The lines of the wait-forever branches, and the lines a call passes
\* when it executes no loop body.
ForeverPcs == {"L321", "L324", "L324st", "L327", "L424", "L427", "L427st", "L430"}
StraightPcs == {"L332", "L339", "L341", "L350", "L435", "L442", "L444", "L453"}

\* The foreground is inside a call given ticks <= 0 other than
\* SLPAL_WAIT_FOREVER.
NoBudget ==
  /\ pc["fg"] # "idle"
  /\ arg["fg"] <= NB /\ arg["fg"] # SLPAL_WAIT_FOREVER

\* C24: only ticks = -1 enters a wait-forever branch.  A wait or take given
\* any other negative ticks does what one given SLPAL_NON_BLOCKING does: it
\* executes no loop body, leaves ticks alone, returns 0 exactly when it
\* began on a set flag (a free mutex) or the handler signalled (gave) before
\* its last check, SLPAL_ERROR_TIMEOUT otherwise, and it does return.
C24_OnlyMinusOneWaitsForever ==
  /\ [](pc["fg"] \in ForeverPcs => arg["fg"] = SLPAL_WAIT_FOREVER)
  /\ [](NoBudget => /\ pc["fg"] \in StraightPcs
                    /\ iters["fg"] = 0
                    /\ ticks["fg"] = arg["fg"])
  /\ [](NoBudget /\ FgAt("L350") =>
          ret["fg"] = PolicyRet(NB, start["fg"], sig.at))
  /\ [](NoBudget /\ FgAt("L453") =>
          ret["fg"] = PolicyRet(NB, start["fg"],
                        IF sig.at = "none" THEN "none" ELSE TakeToWait[sig.at]))
  /\ (NoBudget /\ arg["fg"] < NB) ~> (pc["fg"] = "idle")

\* A wait given the most negative ticks returns 0: the handler signalled
\* before its one check.
C24_Witness ==
  /\ FgAt("L350") /\ arg["fg"] = 0 - MaxNeg /\ ~start["fg"]
  /\ sig.at = "L339" /\ ret["fg"] = 0 /\ ticks["fg"] = 0 - MaxNeg

\* The names of the socket functions in the log, in the order of the calls.
Called == [i \in 1..Len(tlog) |-> tlog[i].fn]

ReadOrder ==
  <<"trcSocketInitializeListener", "trcSocketAccept", "trcSocketReceive">>

\* C25: a trcTcpRead calls trcSocketInitializeListener, trcSocketAccept and
\* trcSocketReceive in this order, once each, whatever the first two yield,
\* passes its size to the third and returns what the third returned; a
\* trcTcpWrite calls trcSocketSend only, with its size, and returns what it
\* returned.
C25_TcpCallOrder ==
  /\ tfn = "trcTcpRead" =>
       /\ Called = SubSeq(ReadOrder, 1, Len(tlog))
       /\ tpc = "idle" =>
            /\ Called = ReadOrder
            /\ tlog[3].size = tsize
            /\ tret = tlog[3].r
  /\ tfn = "trcTcpRead" /\ tpc = "L57" => Len(tlog) = 2
  /\ tfn = "trcTcpWrite" /\ tpc = "idle" =>
       /\ Called = <<"trcSocketSend">>
       /\ tlog[1].size = tsize
       /\ tret = tlog[1].r
  /\ tfn = "trcTcpWrite" /\ tpc # "idle" => tlog = << >>
  /\ \A i \in 1..Len(tlog) :
       tlog[i].fn \in {"trcSocketReceive", "trcSocketSend"} =>
         i = Len(tlog) /\ tpc = "idle"

\* The listener and the accept failed, the receive was still called with
\* the given size and its positive result was returned.
C25_Witness ==
  /\ tfn = "trcTcpRead" /\ tpc = "idle" /\ Len(tlog) = 3
  /\ tlog[1].r < 0 /\ tlog[2].r < 0
  /\ tlog[3].size = MaxSize /\ tret = MaxSockRet

\* The addresses of the last DMDIF_init; the statics are zero before any.
LastInit == IF dinit = << >> THEN <<0, 0>> ELSE dinit

\* The four bus writes of a DMDIF_writeReg(reg, data), by arithmetic on the
\* arguments.
FourWrites(cmd, dat, reg, data) ==
  << [addr |-> cmd, data |-> 0],
     [addr |-> cmd, data |-> reg * 2],
     [addr |-> dat, data |-> ((data \div 256) % 256) * 2],
     [addr |-> dat, data |-> (data % 256) * 2] >>

\* Bus writes issued when the call stands at a line.
WritesAt ==
  [L196 |-> 0, L199 |-> 0, L202 |-> 1, L73 |-> 2, L76 |-> 3, L78 |-> 4,
   idle |-> 4]

\* C26: a DMDIF_writeReg(reg, data) issues exactly four bus writes, in this
\* order: 0 and then reg * 2 to the command register, then the high byte of
\* data times 2 and then the low byte of data times 2 to the data register;
\* the registers are those of the last DMDIF_init; it returns DMD_OK.
C26_WriteRegFourWrites ==
  /\ <<command_register, data_register>> = LastInit
  /\ dfn = "DMDIF_writeReg" =>
       /\ Len(dlog) = WritesAt[dpc]
       /\ dlog = SubSeq(FourWrites(LastInit[1], LastInit[2], wreg, wdata),
                        1, Len(dlog))
       /\ dpc = "idle" => dret = "DMD_OK"

\* After an initialisation with two different registers, a write of 0x1234
\* to register 0x22 sent 0, 0x44, 0x24, 0x68 to them and returned DMD_OK.
C26_Witness ==
  /\ dfn = "DMDIF_writeReg" /\ dpc = "idle"
  /\ dinit = <<MaxAddr, 1>>
  /\ wreg = 34 /\ wdata = 4660
  /\ dlog = << [addr |-> MaxAddr, data |-> 0], [addr |-> MaxAddr, data |-> 68],
               [addr |-> 1, data |-> 36], [addr |-> 1, data |-> 104] >>
  /\ dret = "DMD_OK"

====
